---------------------------- MODULE Spec2Model ----------------------------
(***************************************************************************)
(* A model of two prompt modules of starship and of the command runner     *)
(* they use:                                                               *)
(*   - src/modules/battery.rs : the battery module (state merge, energy    *)
(*     sums, percentage, display style selection);                         *)
(*   - src/modules/python.rs  : the python module (activation gate,        *)
(*     version probe, virtualenv segment, version formatting);             *)
(*   - src/command.rs         : execute, the probe of an external tool.    *)
(*                                                                         *)
(* Text is modelled as a sequence of one-character strings, so that the    *)
(* string functions of python.rs (trim_start_matches, trim, format!) are   *)
(* computed, not assumed.  An Option is a record with a field some.      *)
(***************************************************************************)
EXTENDS Integers, Sequences, FiniteSets, TLC

VARIABLES
    (* ---- battery module ---- *)
    bpc,             \* position in battery::module
    shell,           \* STARSHIP_SHELL as read at battery.rs:8
    count,           \* items the batteries iterator has yielded so far
    battery,         \* the item the iterator yielded last: Err, or Ok and its state
    sum,             \* the accumulator of the fold in sum_batteries
    okStates,        \* the states of the batteries read successfully so far
    managerOk,       \* battery::Manager::new() succeeded
    batteriesOk,     \* battery_manager.batteries() succeeded
    battery_status,  \* what get_battery_status returned
    battery_config,  \* BatteryConfig loaded at battery.rs:19
    bresult,         \* what battery::module returned
    (* ---- python module ---- *)
    ppc,             \* position in python::module
    dir,             \* the target directory: its entries, or unreadable
    virtual_env,     \* VIRTUAL_ENV in the live process environment
    python_config,   \* PythonConfig (pyenv_version_name)
    command_output,  \* what execute returns for the version command in this run
    is_py_project,   \* local of python::module, python.rs:18
    gate_venv,       \* VIRTUAL_ENV as env::var read it at python.rs:30
    python_version,  \* result of the version probe (execute)
    segments,        \* the segments of the module under construction
    presult,         \* what python::module returned
    (* ---- format_python_version ---- *)
    fpc,             \* position of the formatting run
    fmtLits,         \* number of leading "Python " literals of the input
    fmtWs1,          \* whitespace before the version token
    fmtTok,          \* the version token
    fmtWs2,          \* whitespace after the version token
    python_stdout,   \* the argument of format_python_version
    formatted        \* its result

batteryVars == <<bpc, shell, count, battery, sum, okStates, managerOk,
                 batteriesOk, battery_status, battery_config, bresult>>
pythonVars  == <<ppc, dir, virtual_env, python_config, command_output, is_py_project,
                 gate_venv, python_version, segments, presult>>
formatVars  == <<fpc, fmtLits, fmtWs1, fmtTok, fmtWs2, python_stdout, formatted>>
vars == <<batteryVars, pythonVars, formatVars>>

(***************************************************************************)
(* Option values.                                                          *)
(***************************************************************************)
None == [some |-> FALSE]
Some(v) == [some |-> TRUE, val |-> v]

(***************************************************************************)
(* Bounds of the model.                                                    *)
(***************************************************************************)
MaxBatteries == 3   \* items the battery iterator yields at most
MaxEnergy == 2      \* largest energy / energy_full of one battery
MaxDisplay == 2     \* pairs in the configured display list at most
MaxEntries == 2     \* entries of the target directory at most
MaxWs == 2          \* length of a run of whitespace in an interpreter output
MaxLits == 1        \* leading "Python " literals drawn in front of the token

(***************************************************************************)
(* Text.                                                                   *)
(***************************************************************************)
Whitespace == {" ", "\n", "\t"}

starts_with(s, p) == Len(s) >= Len(p) /\ SubSeq(s, 1, Len(p)) = p

\* str::trim_start_matches(pat): removes the prefix REPEATEDLY
RECURSIVE trim_start_matches(_, _)
trim_start_matches(s, pat) ==
    IF pat # <<>> /\ starts_with(s, pat)
    THEN trim_start_matches(SubSeq(s, Len(pat) + 1, Len(s)), pat)
    ELSE s

RECURSIVE trim_start(_)
trim_start(s) ==
    IF s # <<>> /\ Head(s) \in Whitespace THEN trim_start(Tail(s)) ELSE s

RECURSIVE trim_end(_)
trim_end(s) ==
    IF s # <<>> /\ s[Len(s)] \in Whitespace
    THEN trim_end(SubSeq(s, 1, Len(s) - 1))
    ELSE s

\* str::trim
trim(s) == trim_end(trim_start(s))

PythonLiteral == <<"P", "y", "t", "h", "o", "n", " ">>

(***************************************************************************)
(*                          THE BATTERY MODULE                             *)
(***************************************************************************)
State == {"Full", "Empty", "Charging", "Discharging", "Unknown"}

\* energy and energy_full of one battery, in whole units; the code guards
\* against non-positive totals, so a battery may report 0 or a negative value
EnergyValues == -1 .. MaxEnergy

\* what the batteries iterator yields: Err, or Ok(battery)
Batteries ==
    [ok : {TRUE}, state : State, energy : EnergyValues, energy_full : EnergyValues]
    \cup {[ok |-> FALSE]}

\* a mutant of merge_battery_state: Charging is matched before Discharging
merge_charging_first(left, right) ==
    IF left = right THEN left
    ELSE IF left = "Charging" \/ right = "Charging" THEN "Charging"
    ELSE IF left = "Discharging" \/ right = "Discharging" THEN "Discharging"
    ELSE "Unknown"

\* a mutant of merge_battery_state: the left state wins among Full/Empty/Unknown
merge_keeps_left(left, right) ==
    IF left = right THEN left
    ELSE IF left = "Discharging" \/ right = "Discharging" THEN "Discharging"
    ELSE IF left = "Charging" \/ right = "Charging" THEN "Charging"
    ELSE left

merge_battery_state(left, right) ==
    IF left = right THEN left
    ELSE IF right = "Discharging" \/ left = "Discharging" THEN "Discharging"
    ELSE IF left = "Charging" \/ right = "Charging" THEN "Charging"
    ELSE "Unknown"

\* a mutant of the fold's closure: a battery that cannot be read drops the sum
sum_batteries_fold_dropping(acc, item) ==
    IF item.ok
    THEN IF acc.some
         THEN Some([energy      |-> acc.val.energy + item.energy,
                    energy_full |-> acc.val.energy_full + item.energy_full,
                    state       |-> merge_battery_state(acc.val.state, item.state)])
         ELSE Some([energy      |-> item.energy,
                    energy_full |-> item.energy_full,
                    state       |-> item.state])
    ELSE None

\* the closure of the fold in sum_batteries: one iterator item folded into sum
sum_batteries_fold(acc, item) ==
    IF item.ok
    THEN IF acc.some
         THEN Some([energy      |-> acc.val.energy + item.energy,
                    energy_full |-> acc.val.energy_full + item.energy_full,
                    state       |-> merge_battery_state(acc.val.state, item.state)])
         ELSE Some([energy      |-> item.energy,
                    energy_full |-> item.energy_full,
                    state       |-> item.state])
    ELSE acc

\* a mutant of the sanity checks of get_battery_status: only the energy is checked
status_without_capacity_check(total) ==
    IF ~total.some THEN None
    ELSE IF total.val.energy <= 0 THEN None
    ELSE Some([percentage |-> [num |-> 100 * total.val.energy,
                               den |-> total.val.energy_full],
               state |-> total.val.state])

\* get_battery_status, from the result of sum_batteries on.  The percentage
\* (energy / energy_full) * 100 is kept exact, as the fraction num / den.
battery_status_of(total) ==
    IF ~total.some THEN None
    ELSE IF total.val.energy <= 0 THEN None
    ELSE IF total.val.energy_full <= 0 THEN None
    ELSE Some([percentage |-> [num |-> 100 * total.val.energy,
                               den |-> total.val.energy_full],
               state |-> total.val.state])

\* f32::round of a positive percentage: to the nearest whole number, halves up.
\* For the energies and thresholds of this model the f32 operations of the
\* code give the same comparisons and the same rounding as the exact fraction.
round(percentage) == (2 * percentage.num + percentage.den) \div (2 * percentage.den)

\* a mutant of the closure of find: the rounded percentage is compared
rounded_within_threshold(percentage, threshold) == round(percentage) <= threshold

\* the closure of find, battery.rs:25: percentage <= threshold as f32
within_threshold(percentage, threshold) ==
    percentage.num <= threshold * percentage.den

\* display_styles.iter().find(..): the first pair the closure accepts
display_style_for(display, percentage) ==
    LET hits == {i \in 1 .. Len(display) :
                    within_threshold(percentage, display[i].threshold)}
    IN  IF hits = {} THEN None
        ELSE Some(display[CHOOSE i \in hits : \A j \in hits : i <= j])

Shells == {"zsh", "powershell", "bash"}

percentage_char(sh) ==
    CASE sh = "zsh" -> "%%"
      [] sh = "powershell" -> "<backtick>%"
      [] OTHER -> "%"

Thresholds == {10, 33, 100}

\* the display lists: pair i carries a style of its own, named by i
DisplayLists ==
    UNION {[1 .. n -> Thresholds] : n \in 0 .. MaxDisplay}

BatteryConfigs ==
    [display : {[i \in DOMAIN ts |-> [threshold |-> ts[i], style |-> i]] :
                    ts \in DisplayLists},
     unknown_symbol : {None, Some("?")},
     empty_symbol : {None, Some("_")}]

\* the symbol segment of battery.rs:32-57, as a sequence of 0 or 1 segments
\* (the five states the battery crate reports; its hidden variant is not one)
state_segment(state, config) ==
    CASE state = "Full" -> <<[key |-> "full_symbol", value |-> "full"]>>
      [] state = "Charging" -> <<[key |-> "charging_symbol", value |-> "charging"]>>
      [] state = "Discharging" ->
            <<[key |-> "discharging_symbol", value |-> "discharging"]>>
      [] state = "Unknown" ->
            IF config.unknown_symbol.some
            THEN <<[key |-> "unknown_symbol", value |-> config.unknown_symbol.val]>>
            ELSE <<>>
      [] state = "Empty" ->
            IF config.empty_symbol.some
            THEN <<[key |-> "empty_symbol", value |-> config.empty_symbol.val]>>
            ELSE <<>>

\* battery::module from battery.rs:18 on: style, symbol and percentage segment
battery_module(status, config, sh) ==
    LET display_style == display_style_for(config.display, status.percentage)
    IN  IF display_style.some
        THEN Some([style |-> display_style.val.style,
                   segments |->
                       state_segment(status.state, config)
                       \o <<[key |-> "percentage",
                             value |-> <<round(status.percentage),
                                         percentage_char(sh)>>]>>])
        ELSE None

NoBattery == [ok |-> FALSE]
NoConfig == [display |-> <<>>, unknown_symbol |-> None, empty_symbol |-> None]

BatteryIdle ==
    /\ count = 0
    /\ battery = NoBattery
    /\ sum = None
    /\ okStates = {}
    /\ managerOk = FALSE
    /\ batteriesOk = FALSE
    /\ battery_status = None
    /\ battery_config = NoConfig
    /\ bresult = None

InitBattery ==
    /\ bpc = "start"
    /\ shell \in Shells
    /\ BatteryIdle

\* battery.rs:77: battery::Manager::new().ok()?
ManagerNew ==
    /\ bpc = "start"
    /\ \E ok \in BOOLEAN :
          /\ managerOk' = ok
          /\ bpc' = IF ok THEN "batteries" ELSE "done"
    /\ UNCHANGED <<shell, count, battery, sum, okStates, batteriesOk,
                   battery_status, battery_config, bresult>>
    /\ UNCHANGED <<pythonVars, formatVars>>

\* battery.rs:79-85: battery_manager.batteries()
ManagerBatteries ==
    /\ bpc = "batteries"
    /\ \E ok \in BOOLEAN :
          /\ batteriesOk' = ok
          /\ bpc' = IF ok THEN "fold" ELSE "done"
    /\ UNCHANGED <<shell, count, battery, sum, okStates, managerOk,
                   battery_status, battery_config, bresult>>
    /\ UNCHANGED <<pythonVars, formatVars>>

\* battery.rs:123-148: the iterator yields one more item and the closure runs
FoldBattery ==
    /\ bpc = "fold"
    /\ count < MaxBatteries
    /\ \E item \in Batteries :
          /\ battery' = IF item.ok THEN [ok |-> TRUE, state |-> item.state] ELSE item
          /\ sum' = sum_batteries_fold(sum, item)
          /\ okStates' = IF item.ok THEN okStates \cup {item.state} ELSE okStates
    /\ count' = count + 1
    /\ UNCHANGED <<bpc, shell, managerOk, batteriesOk, battery_status,
                   battery_config, bresult>>
    /\ UNCHANGED <<pythonVars, formatVars>>

\* battery.rs:87-119: the iterator is exhausted; the total is checked and the
\* percentage computed.  The locals of the fold other than its result end here.
GetBatteryStatus ==
    /\ bpc = "fold"
    /\ battery_status' = battery_status_of(sum)
    /\ bpc' = IF battery_status'.some THEN "module" ELSE "done"
    /\ count' = 0
    /\ battery' = NoBattery
    /\ okStates' = {}
    /\ UNCHANGED <<shell, sum, managerOk, batteriesOk, battery_config, bresult>>
    /\ UNCHANGED <<pythonVars, formatVars>>

\* battery.rs:18-73: the configuration is loaded and the module built
BatteryModule ==
    /\ bpc = "module"
    /\ \E config \in BatteryConfigs :
          /\ battery_config' = config
          /\ bresult' = battery_module(battery_status.val, config, shell)
    /\ bpc' = "done"
    /\ UNCHANGED <<shell, count, battery, sum, okStates, managerOk, batteriesOk,
                   battery_status>>
    /\ UNCHANGED <<pythonVars, formatVars>>

NextBattery ==
    \/ ManagerNew
    \/ ManagerBatteries
    \/ FoldBattery
    \/ GetBatteryStatus
    \/ BatteryModule


(***************************************************************************)
(*                       THE COMMAND RUNNER                                *)
(***************************************************************************)
\* a command line "binary arg", as its two words
PyenvVersionName == <<"pyenv", "version-name">>
PythonVersion == <<"python", "--version">>

\* split_command: the binary and the argument
split_command(command) == [binary |-> command[1], arg |-> command[2]]

\* the standard output a binary can produce: a python 3 prints "Python 3.7.4\n",
\* a python 2 prints its version to the standard error and nothing here
Stdout(binary) ==
    CASE binary = "python" ->
            {<<"P", "y", "t", "h", "o", "n", " ", "3", ".", "7", ".", "4", "\n">>,
             <<>>}
      [] binary = "pyenv" ->
            {<<"3", ".", "7", ".", "4", "\n">>,
             <<"s", "y", "s", "t", "e", "m", "\n">>}

\* execute: None when the process cannot be spawned or its output is not
\* UTF-8, else Some(stdout); the set of the outcomes of one call
execute(command) ==
    {None} \cup {Some(out) : out \in Stdout(split_command(command).binary)}

(***************************************************************************)
(*                          THE PYTHON MODULE                              *)
(***************************************************************************)
\* directory entries: base name and extension
Entries ==
    {[name |-> "requirements.txt", ext |-> "txt"],
     [name |-> ".python-version", ext |-> ""],
     [name |-> "pyproject.toml", ext |-> "toml"],
     [name |-> "Pipfile", ext |-> ""],
     [name |-> "tox.ini", ext |-> "ini"],
     [name |-> "main.py", ext |-> "py"],
     [name |-> "README.md", ext |-> "md"],
     [name |-> "Cargo.toml", ext |-> "toml"]}

Unreadable == [readable |-> FALSE]

Dirs ==
    {[readable |-> TRUE, entries |-> es] :
        es \in {e \in SUBSET Entries : Cardinality(e) <= MaxEntries}}
    \cup {Unreadable}

\* Context::try_begin_scan: no scanner for a directory that cannot be read
try_begin_scan(d) == IF d.readable THEN Some(d.entries) ELSE None

\* ScanDir::is_match: an entry with one of the names or one of the extensions
is_match(entries, files, extensions) ==
    \E e \in entries : e.name \in files \/ e.ext \in extensions

PythonFiles ==
    {"requirements.txt", ".python-version", "pyproject.toml", "Pipfile", "tox.ini"}
PythonExtensions == {"py"}

\* VIRTUAL_ENV in the process environment: unset, set to bytes that are not
\* unicode, or set to a path (its components; <<>> is "/")
EnvUnset == [set |-> FALSE]
EnvNotUnicode == [set |-> TRUE, unicode |-> FALSE]
EnvPath(path) == [set |-> TRUE, unicode |-> TRUE, path |-> path]
EnvValues ==
    {EnvUnset, EnvNotUnicode,
     EnvPath(<<"foo", "bar", "my_venv">>),
     EnvPath(<<"home", "venvs", "other">>),
     EnvPath(<<>>),
     EnvPath(<<"venvs", "..">>)}

\* env::var(..).ok(): Some for a variable that is set and valid unicode
env_var_ok(v) == IF v.set /\ v.unicode THEN Some(v.path) ELSE None

\* Path::file_name: None for the root and for a path that ends in ".."
file_name(path) ==
    IF path = <<>> \/ path[Len(path)] = ".." THEN None ELSE Some(path[Len(path)])

\* get_python_virtual_env on the value VIRTUAL_ENV has when it is called
get_python_virtual_env(v) ==
    IF env_var_ok(v).some THEN file_name(env_var_ok(v).val) ELSE None

\* a mutant of format_python_version: without the trim
format_without_trim(stdout) ==
    <<"v">> \o trim_start_matches(stdout, PythonLiteral)

\* format!("v{}", python_stdout.trim_start_matches("Python ").trim())
format_python_version(stdout) ==
    <<"v">> \o trim(trim_start_matches(stdout, PythonLiteral))

\* python.rs:32: the module returns None here
gate_closed(py_project, venv) == ~py_project /\ ~venv

\* a mutant of the probe handling: a failed probe leaves the symbol alone
version_segments_degrading(config, probe) ==
    IF ~probe.some THEN Some(<<>>)
    ELSE IF config.pyenv_version_name
    THEN Some(<<[key |-> "pyenv_prefix", value |-> <<"pyenv ">>],
                [key |-> "version", value |-> trim(probe.val)]>>)
    ELSE Some(<<[key |-> "version", value |-> format_python_version(probe.val)]>>)

\* python.rs:42-49: the segments the version probe adds, None where the
\* ? operator returns from the module
version_segments(config, probe) ==
    IF ~probe.some THEN None
    ELSE IF config.pyenv_version_name
    THEN Some(<<[key |-> "pyenv_prefix", value |-> <<"pyenv ">>],
                [key |-> "version", value |-> trim(probe.val)]>>)
    ELSE Some(<<[key |-> "version", value |-> format_python_version(probe.val)]>>)

\* python.rs:51-56: the virtualenv segment, as a sequence of 0 or 1 segments
virtualenv_segments(venv) ==
    IF venv.some
    THEN <<[key |-> "virtualenv", value |-> <<" (", venv.val, ")">>]>>
    ELSE <<>>

\* python.rs:42-47 and 62-68: the command of the configured version probe
version_command(config) ==
    IF config.pyenv_version_name THEN PyenvVersionName ELSE PythonVersion

SymbolSegment == [key |-> "symbol", value |-> <<"symbol">>]
NotRun == [some |-> FALSE, run |-> FALSE]

PythonIdle ==
    /\ is_py_project = FALSE
    /\ gate_venv = EnvUnset
    /\ python_version = NotRun
    /\ segments = <<>>
    /\ presult = None

InitPython ==
    /\ ppc = "scan"
    /\ dir \in Dirs
    /\ virtual_env \in EnvValues
    /\ python_config \in [pyenv_version_name : BOOLEAN]
    /\ command_output \in execute(version_command(python_config))
    /\ PythonIdle

\* python.rs:18-28: the scan of the target directory
Scan ==
    /\ ppc = "scan"
    /\ LET scan == try_begin_scan(dir)
       IN  IF scan.some
           THEN /\ is_py_project' = is_match(scan.val, PythonFiles, PythonExtensions)
                /\ ppc' = "gate"
           ELSE /\ is_py_project' = is_py_project
                /\ ppc' = "done"
    /\ UNCHANGED <<dir, virtual_env, python_config, command_output, gate_venv, python_version,
                   segments, presult>>
    /\ UNCHANGED <<batteryVars, formatVars>>

\* python.rs:30-40: VIRTUAL_ENV is read, the gate decided, the symbol created
Gate ==
    /\ ppc = "gate"
    /\ gate_venv' = virtual_env
    /\ IF gate_closed(is_py_project, env_var_ok(gate_venv').some)
       THEN ppc' = "done" /\ segments' = segments
       ELSE ppc' = "probe" /\ segments' = <<SymbolSegment>>
    /\ UNCHANGED <<dir, virtual_env, python_config, command_output, is_py_project, python_version,
                   presult>>
    /\ UNCHANGED <<batteryVars, formatVars>>

\* python.rs:42-49: the version probe runs and its segments are created
Probe ==
    /\ ppc = "probe"
    /\ python_version' = command_output
    /\ LET added == version_segments(python_config, python_version')
       IN  IF ~added.some
           THEN /\ ppc' = "done"
                /\ UNCHANGED <<segments, presult>>
           ELSE /\ segments' = segments \o added.val
                /\ IF python_config.pyenv_version_name
                   THEN /\ ppc' = "done"
                        /\ presult' = Some([segments |-> segments'])
                   ELSE /\ ppc' = "venv"
                        /\ presult' = presult
    /\ UNCHANGED <<dir, virtual_env, python_config, command_output, is_py_project, gate_venv>>
    /\ UNCHANGED <<batteryVars, formatVars>>

\* python.rs:51-59: VIRTUAL_ENV is read again and the module returned
VirtualEnv ==
    /\ ppc = "venv"
    /\ segments' = segments \o virtualenv_segments(get_python_virtual_env(virtual_env))
    /\ presult' = Some([segments |-> segments'])
    /\ ppc' = "done"
    /\ UNCHANGED <<dir, virtual_env, python_config, command_output, is_py_project, gate_venv,
                   python_version>>
    /\ UNCHANGED <<batteryVars, formatVars>>

\* another thread of the process changes VIRTUAL_ENV while the module runs
SetEnv ==
    /\ ppc \in {"scan", "gate", "probe", "venv"}
    /\ \E v \in EnvValues \ {virtual_env} : virtual_env' = v
    /\ UNCHANGED <<ppc, dir, python_config, command_output, is_py_project, gate_venv,
                   python_version, segments, presult>>
    /\ UNCHANGED <<batteryVars, formatVars>>

NextPython ==
    \/ Scan
    \/ Gate
    \/ Probe
    \/ VirtualEnv

NextPythonEnv ==
    \/ Scan
    \/ Gate
    \/ Probe
    \/ VirtualEnv
    \/ SetEnv

(***************************************************************************)
(*                      format_python_version ALONE                        *)
(***************************************************************************)
WsChars == {" ", "\n"}
WsStrings == UNION {[1 .. n -> WsChars] : n \in 0 .. MaxWs}

Tokens ==
    {<<"3", ".", "7", ".", "2">>,
     <<"3", ".", "1", "0", ".", "0">>,
     <<"P", "y", "t", "h", "o", "n">>,
     <<"P", "y", "t", "h", "o", "n", "3">>,
     <<"P">>,
     <<"2">>,
     <<>>}

RECURSIVE Repeat(_, _)
Repeat(s, n) == IF n = 0 THEN <<>> ELSE s \o Repeat(s, n - 1)

InitFormat ==
    /\ fpc = "input"
    /\ fmtLits \in 0 .. MaxLits
    /\ fmtWs1 \in WsStrings
    /\ fmtTok \in Tokens
    /\ fmtWs2 \in WsStrings
    /\ python_stdout = Repeat(PythonLiteral, fmtLits) \o fmtWs1 \o fmtTok \o fmtWs2
    /\ formatted = <<>>

FormatIdle ==
    /\ fmtLits = 0
    /\ fmtWs1 = <<>>
    /\ fmtTok = <<>>
    /\ fmtWs2 = <<>>
    /\ python_stdout = <<>>
    /\ formatted = <<>>

\* python.rs:70-72
FormatVersion ==
    /\ fpc = "input"
    /\ formatted' = format_python_version(python_stdout)
    /\ fpc' = "done"
    /\ UNCHANGED <<fmtLits, fmtWs1, fmtTok, fmtWs2, python_stdout>>
    /\ UNCHANGED <<batteryVars, pythonVars>>

NextFormat ==
    \/ FormatVersion

(***************************************************************************)
(*                           SPECIFICATIONS                                *)
(***************************************************************************)
BatteryOff == bpc = "off" /\ shell = "bash" /\ BatteryIdle
PythonOff ==
    /\ ppc = "off"
    /\ dir = Unreadable
    /\ virtual_env = EnvUnset
    /\ python_config = [pyenv_version_name |-> FALSE]
    /\ command_output = None
    /\ PythonIdle
FormatOff == fpc = "off" /\ FormatIdle

\* the battery module alone
InitBatteryAlone == InitBattery /\ PythonOff /\ FormatOff
SpecBattery == InitBatteryAlone /\ [][NextBattery]_vars

\* the python module alone, in a process whose environment nobody changes
InitPythonAlone == InitPython /\ BatteryOff /\ FormatOff
SpecPython == InitPythonAlone /\ [][NextPython]_vars

\* the python module in a process where another thread changes VIRTUAL_ENV
SpecPythonEnv == InitPythonAlone /\ [][NextPythonEnv]_vars

\* format_python_version on the outputs of an interpreter
InitFormatAlone == InitFormat /\ BatteryOff /\ PythonOff
SpecFormat == InitFormatAlone /\ [][NextFormat]_vars

\* one of the three at a time
Init ==
    \/ InitBatteryAlone
    \/ InitPythonAlone
    \/ InitFormatAlone

Next ==
    \/ ManagerNew
    \/ ManagerBatteries
    \/ FoldBattery
    \/ GetBatteryStatus
    \/ BatteryModule
    \/ Scan
    \/ Gate
    \/ Probe
    \/ VirtualEnv
    \/ SetEnv
    \/ FormatVersion

Spec == Init /\ [][Next]_vars

(***************************************************************************)
(*                    PROPERTIES OF THE BATTERY MODULE                     *)
(***************************************************************************)
\* a step of the fold that merges the state of one more battery into the sum
MergeStep == bpc = "fold" /\ sum.some /\ count' = count + 1 /\ battery'.ok

\* C1: merge_battery_state follows the strict precedence: whenever the fold
\* merges the state of a battery into the state of the sum, the result is
\* Discharging if either of the two is Discharging, and else Charging if
\* either of the two is Charging.
C1_MergePrecedence ==
    [][MergeStep =>
        LET left == sum.val.state
            right == battery'.state
            merged == sum'.val.state
        IN  /\ (left = "Discharging" \/ right = "Discharging")
                  => merged = "Discharging"
            /\ (left # "Discharging" /\ right # "Discharging"
                /\ (left = "Charging" \/ right = "Charging"))
                  => merged = "Charging"]_vars

\* a Full battery was merged into a Discharging sum, a Charging one came first
C1_Witness ==
    /\ bpc = "fold"
    /\ count = 3
    /\ okStates = {"Charging", "Discharging", "Full"}
    /\ battery.ok /\ battery.state = "Full"
    /\ sum.some /\ sum.val.state = "Discharging"

NeitherChargingNorDischarging == {"Full", "Empty", "Unknown"}

\* C2: for two states out of Full, Empty and Unknown the merge is the common
\* state when they are equal and Unknown when they differ.
C2_MergeUnknown ==
    [][(/\ MergeStep
        /\ sum.val.state \in NeitherChargingNorDischarging
        /\ battery'.state \in NeitherChargingNorDischarging)
       => sum'.val.state =
              IF sum.val.state = battery'.state THEN sum.val.state ELSE "Unknown"]_vars

\* Full and Empty were merged to Unknown
C2_Witness ==
    /\ bpc = "fold"
    /\ count = 2
    /\ okStates = {"Full", "Empty"}
    /\ battery.ok /\ battery.state = "Empty"
    /\ sum.some /\ sum.val.state = "Unknown"

\* C5: the battery module returns None whenever there is no usable battery
\* data (the manager or the enumeration fails, no battery was read, or the
\* summed energy or the summed capacity is <= 0), and a percentage is only
\* ever computed with a strictly positive capacity as its divisor.
C5_NoneWithoutUsableData ==
    /\ (bpc = "done"
        /\ (\/ ~managerOk
            \/ ~batteriesOk
            \/ ~sum.some
            \/ sum.val.energy <= 0
            \/ sum.val.energy_full <= 0))
          => ~bresult.some
    /\ battery_status.some => battery_status.val.percentage.den > 0
    /\ bresult.some => battery_status.some

\* batteries were read, with energy left and no capacity at all: no module
C5_Witness ==
    /\ bpc = "done"
    /\ managerOk /\ batteriesOk
    /\ sum.some /\ sum.val.energy > 0 /\ sum.val.energy_full <= 0
    /\ ~battery_status.some
    /\ ~bresult.some

\* the first of a set of positions of the display list, 0 when there is none
FirstOf(hits) ==
    IF hits = {} THEN 0 ELSE CHOOSE i \in hits : \A j \in hits : i <= j

\* the module was built from a battery status and a configuration
BatteryRendered == bpc = "done" /\ battery_status.some

\* the whole number the percentage segment shows
ShownPercentage == bresult.val.segments[Len(bresult.val.segments)].value[1]

RoundedHalfUp(num, den) == (2 * num + den) \div (2 * den)

\* C6, as claimed: the style is that of the first pair whose threshold is >=
\* the percentage rounded to a whole number, the number the segment shows.
C6_StyleByRoundedPercentage ==
    BatteryRendered =>
        LET p == battery_status.val.percentage
            display == battery_config.display
            first == FirstOf({i \in 1 .. Len(display) :
                                display[i].threshold >= RoundedHalfUp(p.num, p.den)})
        IN  /\ bresult.some <=> first # 0
            /\ bresult.some => bresult.val.style = battery_config.display[first].style

\* C6, amended: the style is that of the first pair whose threshold is >= the
\* percentage as computed, not rounded; no such pair, no module.  The
\* percentage segment shows the percentage rounded to a whole number.
C6_StyleByPercentage ==
    BatteryRendered =>
        LET p == battery_status.val.percentage
            display == battery_config.display
            first == FirstOf({i \in 1 .. Len(display) :
                                display[i].threshold * p.den >= p.num})
        IN  /\ bresult.some <=> first # 0
            /\ bresult.some =>
                  /\ bresult.val.style = battery_config.display[first].style
                  /\ ShownPercentage = RoundedHalfUp(p.num, p.den)

\* 1 of 3 is 33.3%: shown as 33, and the pair of threshold 33 is passed over
C6_Witness ==
    /\ BatteryRendered
    /\ sum.val.energy = 1 /\ sum.val.energy_full = 3
    /\ Len(battery_config.display) = 2
    /\ battery_config.display[1].threshold = 33
    /\ battery_config.display[2].threshold = 100
    /\ bresult.some
    /\ bresult.val.style = battery_config.display[2].style
    /\ ShownPercentage = 33

\* the state the claim gives for a set of successfully read states
AggregateState(states) ==
    IF "Discharging" \in states THEN "Discharging"
    ELSE IF "Charging" \in states THEN "Charging"
    ELSE IF Cardinality(states) = 1 THEN CHOOSE st \in states : TRUE
    ELSE "Unknown"

\* C10: sum_batteries skips the batteries that cannot be read, and the state
\* of the sum depends only on which states were read successfully, not on
\* their order nor on where the errors fall: Discharging if any is, else
\* Charging if any is, else the common state, else Unknown.
C10_SumStateOrderFree ==
    bpc = "fold" =>
        /\ sum.some <=> okStates # {}
        /\ sum.some => sum.val.state = AggregateState(okStates)

\* Full, then Charging, then a battery that cannot be read
C10_Witness ==
    /\ bpc = "fold"
    /\ count = 3
    /\ ~battery.ok
    /\ okStates = {"Full", "Charging"}
    /\ sum.some /\ sum.val.state = "Charging"


(***************************************************************************)
(*                    PROPERTIES OF THE PYTHON MODULE                      *)
(***************************************************************************)
HasSegment(key) == \E i \in 1 .. Len(segments) : segments[i].key = key

\* the version probe ran and returned nothing
ProbeReturnedNothing == python_version = None

\* C3: whenever the gate has passed and the configured version probe returns
\* nothing, the python module returns None; a module that is returned holds
\* its version segment, never the symbol segment alone.
C3_NoneWhenProbeFails ==
    /\ ProbeReturnedNothing => (ppc = "done" /\ ~presult.some)
    /\ presult.some => (python_version.some /\ HasSegment("version"))

\* pyenv mode, the gate passed, pyenv could not be run: symbol built, no module
C3_Witness ==
    /\ ppc = "done"
    /\ python_config.pyenv_version_name
    /\ ProbeReturnedNothing
    /\ segments = <<SymbolSegment>>
    /\ ~presult.some

\* the directory holds one of the python files, or an entry with extension py
PythonEntries ==
    /\ dir.readable
    /\ \E e \in dir.entries :
          \/ e.name \in {".python-version", "requirements.txt", "pyproject.toml",
                         "Pipfile", "tox.ini"}
          \/ e.ext = "py"

\* VIRTUAL_ENV is set, to a value the program can read as text
VenvIsSet == virtual_env.set /\ virtual_env.unicode

\* C4, as claimed: the gate passes exactly when the directory holds a python
\* entry or VIRTUAL_ENV is set; with VIRTUAL_ENV set and a version probe that
\* succeeds the module returns Some for every directory, an unreadable one
\* included; with VIRTUAL_ENV unset and no python entry it returns None.
C4_GateIsEntriesOrVenv ==
    ppc = "done" =>
        /\ HasSegment("symbol") <=> (PythonEntries \/ VenvIsSet)
        /\ (VenvIsSet /\ command_output.some) => presult.some
        /\ (~virtual_env.set /\ ~PythonEntries) => ~presult.some

\* C7, as claimed: with requirements.txt in the directory and no python
\* interpreter to run, the module is returned with the symbol segment alone.
C7_SymbolOnlyWithoutInterpreter ==
    (/\ ppc = "done"
     /\ dir.readable
     /\ [name |-> "requirements.txt", ext |-> "txt"] \in dir.entries
     /\ ~python_config.pyenv_version_name
     /\ ~command_output.some)
    => (presult.some /\ presult.val.segments = <<SymbolSegment>>)

\* C7, amended: with requirements.txt in the directory and no python
\* interpreter to run, the module returns None: no segment is shown at all.
C7_NoneWithoutInterpreter ==
    (/\ ppc = "done"
     /\ dir.readable
     /\ [name |-> "requirements.txt", ext |-> "txt"] \in dir.entries
     /\ ~python_config.pyenv_version_name
     /\ ~command_output.some)
    => (ProbeReturnedNothing /\ ~presult.some)

\* requirements.txt alone, VIRTUAL_ENV unset, no interpreter: no module
C7_Witness ==
    /\ ppc = "done"
    /\ dir = [readable |-> TRUE,
              entries |-> {[name |-> "requirements.txt", ext |-> "txt"]}]
    /\ virtual_env = EnvUnset
    /\ ~python_config.pyenv_version_name
    /\ ProbeReturnedNothing
    /\ ~presult.some

\* the base name of a value of VIRTUAL_ENV, when it has one
HasBaseName(v) ==
    v.set /\ v.unicode /\ v.path # <<>> /\ v.path[Len(v.path)] # ".."

\* C8, as claimed: the gate and the virtualenv segment see the same value of
\* VIRTUAL_ENV also when the environment is changed meanwhile: a module (not
\* in pyenv mode) that passed the gate only because VIRTUAL_ENV was set to a
\* path with a base name carries the virtualenv segment of that path, and a
\* module rendered with VIRTUAL_ENV unset at the gate carries none.
C8_OneSnapshotOfVirtualEnv ==
    (ppc = "done" /\ presult.some /\ ~python_config.pyenv_version_name) =>
        /\ (~is_py_project /\ HasBaseName(gate_venv)) =>
              \E i \in 1 .. Len(segments) :
                 /\ segments[i].key = "virtualenv"
                 /\ segments[i].value =
                       <<" (", gate_venv.path[Len(gate_venv.path)], ")">>
        /\ ~gate_venv.set => ~HasSegment("virtualenv")

(***************************************************************************)
(*                 PROPERTIES OF format_python_version                     *)
(***************************************************************************)
\* the input is "Python ", whitespace, a token without whitespace that does
\* not begin with "Python ", whitespace
ClaimedForm ==
    /\ fmtLits = 1
    /\ \A i \in 1 .. Len(fmtTok) : fmtTok[i] \notin Whitespace
    /\ ~starts_with(fmtTok, PythonLiteral)

\* C9, as claimed: for every output "Python " + whitespace + V + whitespace,
\* V without whitespace and not beginning with "Python ", the result is "v" + V.
C9_FormatStripsLiteral ==
    (fpc = "done" /\ ClaimedForm) => formatted = <<"v">> \o fmtTok

\* C9, amended: the same, for the outputs where what follows the leading
\* "Python " (whitespace, V and the trailing whitespace together) does not
\* begin with "Python " again.
C9_FormatStripsLiteralOnce ==
    (/\ fpc = "done"
     /\ ClaimedForm
     /\ ~starts_with(fmtWs1 \o fmtTok \o fmtWs2, PythonLiteral))
    => formatted = <<"v">> \o fmtTok

\* "Python   3.10.0\n" is formatted as "v3.10.0"
C9_Witness ==
    /\ fpc = "done"
    /\ python_stdout = <<"P", "y", "t", "h", "o", "n", " ", " ", " ",
                         "3", ".", "1", "0", ".", "0", "\n">>
    /\ formatted = <<"v", "3", ".", "1", "0", ".", "0">>


=============================================================================
